---- MODULE Spec2Model ----
(***************************************************************************)
(* A model of src/simplismart-kube.py: the KubernetesAutomation object,    *)
(* its six operations and the main() driver.  Every external command and   *)
(* every manifest-file write is one step whose outcome the environment     *)
(* chooses.  `trace` records, in order, the commands invoked and the files *)
(* written by the process (under main) or by the current operation (when   *)
(* the object is driven directly, command = "session").                    *)
(*                                                                         *)
(* An optional value (Python None or a value) is a set with at most one    *)
(* element: {} is None, {v} is v.                                          *)
(***************************************************************************)
EXTENDS Naturals, Integers, Sequences, FiniteSets, TLC

VARIABLES
    command,        \* args.command, or "session": the object driven directly
    args,           \* the parsed command line
    kubeconfig,     \* self.kubeconfig (optional string)
    namespace,      \* self.namespace
    helm_installed, \* self.helm_installed
    keda_installed, \* self.keda_installed
    helm_path,      \* self.helm_path
    cluster_up,     \* environment: whether the cluster answers at all
    pc,             \* position of the running operation, or of main
    op,             \* the operation running or last run
    call,           \* the running operation's parameters, after defaulting
    ret,            \* the last operation's boolean outcome
    status,         \* get_deployment_status's record being built (optional)
    workload_status,\* the status object of the workload response (optional)
    pod_list,       \* the items of the pod-list response that was folded into it
    printed,        \* what main printed for the status subcommand (optional)
    exit_code,      \* the process's exit code, meaningful once pc = "exited"
    nops,           \* operations started on the object in a session
    listed,         \* result.stdout of install_keda's pod listing (optional)
    trace,          \* commands invoked and files written, in order
    files           \* manifest documents completely written, by kind

vars == <<command, args, kubeconfig, namespace, helm_installed, keda_installed,
          helm_path, cluster_up, pc, op, call, ret, status, workload_status,
          pod_list, printed, exit_code, nops, listed, trace, files>>

(***************************************************************************)
(* Bounds of the model.                                                    *)
(***************************************************************************)
MaxOps == 3         \* operations called on one object in a session
MaxPods == 2        \* pods in a pod-list response

(***************************************************************************)
(* Optional values and dict.get.                                           *)
(***************************************************************************)
None == {}
Some(v) == {v}
Elem(o) == CHOOSE v \in o : TRUE

\* d.get(key, default) on a dict whose keys are optional fields
Get(d, key, default) == IF d[key] = None THEN default ELSE Elem(d[key])

(***************************************************************************)
(* Inputs.                                                                 *)
(***************************************************************************)
Kubeconfigs == {None, Some("kube.conf")}
Namespaces == {"default", "prod"}
Names == {"myapp"}
Images == {"nginx"}
Tags == {"latest", "1.25"}
ReplicaCounts == {1, 3}
CliPorts == {<<80>>, <<8080>>, <<8080, 443>>}      \* nargs="+": never empty
\* parameters of a direct call of create_deployment: ports may be None or empty
ApiTags == {"1.25"}
ApiReplicaCounts == {3}
ApiPorts == {None, Some(<< >>), Some(<<8080>>), Some(<<8080, 443>>)}

\* the JSON object of a --keda-config file: {min_replicas, max_replicas, triggers}
EmptyPolicy == [min_replicas |-> None, max_replicas |-> None, triggers |-> None]
Policies ==
    { EmptyPolicy,
      [min_replicas |-> Some(2), max_replicas |-> None, triggers |-> None],
      [min_replicas |-> None, max_replicas |-> Some(5), triggers |-> Some(<<"cpu">>)],
      [min_replicas |-> None, max_replicas |-> None, triggers |-> Some(<<"cpu">>)],
      [min_replicas |-> Some(0), max_replicas |-> Some(5),
       triggers |-> Some(<<"cpu", "kafka">>)] }

\* bool(keda_config): a dict is true iff it has a key
Truthy(policy) ==
    \/ policy.min_replicas # None
    \/ policy.max_replicas # None
    \/ policy.triggers # None

\* the --keda-config argument: absent, or a path whose file loads or not
NoKedaFile == [given |-> FALSE, loads |-> FALSE, content |-> EmptyPolicy]
KedaFiles ==
    {NoKedaFile, [given |-> TRUE, loads |-> FALSE, content |-> EmptyPolicy]}
    \cup {[given |-> TRUE, loads |-> TRUE, content |-> p] : p \in Policies}

DefaultArgs ==
    [helm |-> FALSE, keda |-> FALSE, name |-> "myapp", image |-> "nginx",
     tag |-> "latest", replicas |-> 1, cpu_request |-> "100m",
     cpu_limit |-> "500m", memory_request |-> "128Mi", memory_limit |-> "512Mi",
     ports |-> <<80>>, keda_config |-> NoKedaFile]

\* the command lines argparse accepts, by subcommand
ArgsOf(c) ==
    CASE c = "install" ->
           {[DefaultArgs EXCEPT !.helm = h, !.keda = k] : h \in BOOLEAN, k \in BOOLEAN}
      [] c = "deploy" ->
           {[DefaultArgs EXCEPT !.name = n, !.image = i, !.tag = t, !.replicas = r,
                                !.ports = p, !.keda_config = kc] :
              n \in Names, i \in Images, t \in Tags, r \in ReplicaCounts,
              p \in CliPorts, kc \in KedaFiles}
      [] c = "status" -> {[DefaultArgs EXCEPT !.name = n] : n \in Names}
      [] OTHER -> {DefaultArgs}

NoCall ==
    [name |-> "", image |-> "", tag |-> "", replicas |-> 0, cpu_request |-> "",
     cpu_limit |-> "", memory_request |-> "", memory_limit |-> "",
     ports |-> << >>, keda_config |-> EmptyPolicy]

NoFiles == [deployment |-> None, service |-> None, scaledobject |-> None]

(***************************************************************************)
(* run_command and the command strings.                                    *)
(***************************************************************************)
\* a run_command that invokes a failed command a second time
run_command_Retry(cmd, check, rc) ==
    LET e == [kind |-> "run", what |-> cmd, check |-> check, rc |-> rc]
    IN  IF rc = 0 THEN Append(trace, e) ELSE Append(Append(trace, e), e)

\* one invocation of run_command(cmd, check) that exited with rc
run_command(cmd, check, rc) ==
    Append(trace, [kind |-> "run", what |-> cmd, check |-> check, rc |-> rc])

\* one open(file, 'w') + yaml.dump: rc 0 when the document was written
write_file(file, rc) ==
    Append(trace, [kind |-> "write", what |-> file, check |-> TRUE, rc |-> rc])

\* json.loads(result.stdout) and the lookups of the expected keys, after a
\* command that exited 0: rc 0 when the response is the expected JSON
json_loads(tr, what, valid) ==
    Append(tr, [kind |-> "parse", what |-> what, check |-> TRUE,
                rc |-> IF valid THEN 0 ELSE 1])

\* exit statuses the environment can give a command; a command that has to
\* reach the cluster fails whenever the cluster does not answer
ExitCodes(needs_cluster) == IF needs_cluster /\ ~cluster_up THEN {1} ELSE {0, 1}

\* `if self.kubeconfig: cmd += f" --kubeconfig={self.kubeconfig}"`
KubeconfigFlag == IF kubeconfig = None THEN "" ELSE " --kubeconfig=" \o Elem(kubeconfig)
\* install_keda quotes the path
KubeconfigFlagQuoted ==
    IF kubeconfig = None THEN "" ELSE " --kubeconfig=\"" \o Elem(kubeconfig) \o "\""

possible_paths ==
    << "C:\\Program Files\\helm.exe",
       "C:\\ProgramData\\chocolatey\\bin\\helm.exe",
       "C:\\Program Files\\Helm\\bin\\helm.exe" >>

\* find_helm_path's result: "helm" when `where helm` exits 0; otherwise the first
\* of possible_paths that exists (n, 0 for none), quoted, or "helm"
find_helm_path(rc, n) ==
    IF rc = 0 \/ n = 0 THEN "helm" ELSE "\"" \o possible_paths[n] \o "\""

(***************************************************************************)
(* Init: the state after argument parsing and KubernetesAutomation(...).   *)
(* The constructor has already run `where helm`.                           *)
(***************************************************************************)
Commands == {"connect", "install", "deploy", "status", "session"}

Init ==
    /\ command \in Commands
    /\ args \in ArgsOf(command)
    /\ kubeconfig \in Kubeconfigs
    /\ namespace \in Namespaces
    /\ helm_installed = FALSE
    /\ keda_installed = FALSE
    /\ cluster_up \in BOOLEAN
    /\ \E rc \in ExitCodes(FALSE), n \in 0..Len(possible_paths) :
          /\ helm_path = find_helm_path(rc, n)
          /\ trace = <<[kind |-> "run", what |-> "where helm", check |-> FALSE, rc |-> rc]>>
    /\ pc = IF command = "session" THEN "idle" ELSE "main"
    /\ op = "none"
    /\ call = NoCall
    /\ ret = FALSE
    /\ status = None
    /\ workload_status = None
    /\ pod_list = << >>
    /\ printed = None
    /\ exit_code = 0
    /\ nops = 0
    /\ listed = None
    /\ files = NoFiles

\* what every step of an operation leaves alone
Config == <<command, args, kubeconfig, namespace, cluster_up>>

\* an operation returns v to its caller
Return(v) == ret' = v /\ pc' = "returned"

(***************************************************************************)
(* connect_to_cluster                                                      *)
(***************************************************************************)
\* a connect that records its outcome in the Helm flag
connect_to_cluster_MarksHelm ==
    /\ pc = "connect"
    /\ \E rc \in ExitCodes(TRUE) :
          /\ trace' = run_command("kubectl cluster-info" \o KubeconfigFlag, TRUE, rc)
          /\ helm_installed' = (rc = 0)
          /\ Return(rc = 0)
    /\ UNCHANGED <<Config, keda_installed, helm_path, op, call,
                   status, workload_status, pod_list, printed, exit_code, nops, listed, files>>

connect_to_cluster ==
    /\ pc = "connect"
    /\ \E rc \in ExitCodes(TRUE) :
          /\ trace' = run_command("kubectl cluster-info" \o KubeconfigFlag, TRUE, rc)
          /\ Return(rc = 0)
    /\ UNCHANGED <<Config, helm_installed, keda_installed, helm_path, op, call,
                   status, workload_status, pod_list, printed, exit_code, nops, listed, files>>

(***************************************************************************)
(* install_helm                                                            *)
(***************************************************************************)
HelmVersionCmd == helm_path \o " version"

\* line 72-76: the probe, run with check=False
InstallHelmProbe ==
    /\ pc = "ih_probe"
    /\ \E rc \in ExitCodes(FALSE) :
          /\ trace' = run_command(HelmVersionCmd, FALSE, rc)
          /\ IF rc = 0
                THEN helm_installed' = TRUE /\ Return(TRUE)
                ELSE pc' = "ih_choco" /\ UNCHANGED <<helm_installed, ret>>
    /\ UNCHANGED <<Config, keda_installed, helm_path, op, call, status, workload_status, pod_list, printed,
                   exit_code, nops, listed, files>>

\* line 79-81: a failure of choco is caught by the bare except
InstallHelmChoco ==
    /\ pc = "ih_choco"
    /\ \E rc \in ExitCodes(FALSE) :
          /\ trace' = run_command("choco install kubernetes-helm -y", TRUE, rc)
          /\ pc' = IF rc = 0 THEN "ih_find" ELSE "ih_winget"
    /\ UNCHANGED <<Config, helm_installed, keda_installed, helm_path, op, call, ret,
                   status, workload_status, pod_list, printed, exit_code, nops, listed, files>>

\* line 82: a failure of winget reaches the outer except
InstallHelmWinget ==
    /\ pc = "ih_winget"
    /\ \E rc \in ExitCodes(FALSE) :
          /\ trace' = run_command("winget install helm.helm", TRUE, rc)
          /\ IF rc = 0 THEN pc' = "ih_find" /\ UNCHANGED ret ELSE Return(FALSE)
    /\ UNCHANGED <<Config, helm_installed, keda_installed, helm_path, op, call,
                   status, workload_status, pod_list, printed, exit_code, nops, listed, files>>

\* line 84: self.helm_path = self.find_helm_path()
InstallHelmFindPath ==
    /\ pc = "ih_find"
    /\ \E rc \in ExitCodes(FALSE), n \in 0..Len(possible_paths) :
          /\ trace' = run_command("where helm", FALSE, rc)
          /\ helm_path' = find_helm_path(rc, n)
    /\ pc' = "ih_verify"
    /\ UNCHANGED <<Config, helm_installed, keda_installed, op, call, ret, status, workload_status, pod_list,
                   printed, exit_code, nops, listed, files>>

\* line 86-89
InstallHelmVerify ==
    /\ pc = "ih_verify"
    /\ \E rc \in ExitCodes(FALSE) :
          /\ trace' = run_command(HelmVersionCmd, TRUE, rc)
          /\ helm_installed' = (helm_installed \/ rc = 0)
          /\ Return(rc = 0)
    /\ UNCHANGED <<Config, keda_installed, helm_path, op, call, status, workload_status, pod_list, printed,
                   exit_code, nops, listed, files>>

install_helm ==
    \/ InstallHelmProbe
    \/ InstallHelmChoco
    \/ InstallHelmWinget
    \/ InstallHelmFindPath
    \/ InstallHelmVerify

(***************************************************************************)
(* install_keda                                                            *)
(***************************************************************************)
\* install_keda without its check of helm_installed
EnterInstallKeda_NoHelmCheck ==
    /\ op' = "install_keda"
    /\ pc' = "ik_repo_add" /\ UNCHANGED ret

\* line 95-97: entering install_keda; without Helm it returns False at once
EnterInstallKeda ==
    /\ op' = "install_keda"
    /\ IF ~helm_installed
          THEN Return(FALSE)
          ELSE pc' = "ik_repo_add" /\ UNCHANGED ret

\* one step of install_keda that only has to succeed (check=True)
KedaStep(at, cmd, needs_cluster, next) ==
    /\ pc = at
    /\ \E rc \in ExitCodes(needs_cluster) :
          /\ trace' = run_command(cmd, TRUE, rc)
          /\ IF rc = 0 THEN pc' = next /\ UNCHANGED ret ELSE Return(FALSE)
    /\ UNCHANGED <<Config, helm_installed, keda_installed, helm_path, op, call,
                   status, workload_status, pod_list, printed, exit_code, nops, listed, files>>

InstallKedaRepoAdd ==
    KedaStep("ik_repo_add",
             helm_path \o " repo add kedacore https://kedacore.github.io/charts",
             FALSE, "ik_repo_update")

InstallKedaRepoUpdate ==
    KedaStep("ik_repo_update", helm_path \o " repo update", FALSE, "ik_install")

InstallKedaChart ==
    KedaStep("ik_install",
             helm_path \o " install keda kedacore/keda --namespace keda --create-namespace"
                \o KubeconfigFlagQuoted,
             TRUE, "ik_pods")

\* what a listing's stdout may contain, as the set of the substrings looked for
Stdouts(tokens) == SUBSET tokens

\* a pod listing that is not looked into: exit code 0 is enough
InstallKedaListPods_AnyOutput ==
    /\ pc = "ik_pods"
    /\ \E rc \in ExitCodes(TRUE), stdout \in Stdouts({"keda-operator"}) :
          /\ trace' = run_command("kubectl get pods -n keda" \o KubeconfigFlagQuoted,
                                  TRUE, rc)
          /\ listed' = IF rc = 0 THEN Some(stdout) ELSE listed
          /\ IF rc = 0
                THEN keda_installed' = TRUE /\ Return(TRUE)
                ELSE UNCHANGED keda_installed /\ Return(FALSE)
    /\ UNCHANGED <<Config, helm_installed, helm_path, op, call, status, workload_status, pod_list, printed,
                   exit_code, nops, files>>

\* line 110-122
InstallKedaListPods ==
    /\ pc = "ik_pods"
    /\ \E rc \in ExitCodes(TRUE), stdout \in Stdouts({"keda-operator"}) :
          /\ trace' = run_command("kubectl get pods -n keda" \o KubeconfigFlagQuoted,
                                  TRUE, rc)
          /\ listed' = IF rc = 0 THEN Some(stdout) ELSE listed
          /\ IF rc = 0 /\ "keda-operator" \in stdout
                THEN keda_installed' = TRUE /\ Return(TRUE)
                ELSE UNCHANGED keda_installed /\ Return(FALSE)
    /\ UNCHANGED <<Config, helm_installed, helm_path, op, call, status, workload_status, pod_list, printed,
                   exit_code, nops, files>>

install_keda ==
    \/ InstallKedaRepoAdd
    \/ InstallKedaRepoUpdate
    \/ InstallKedaChart
    \/ InstallKedaListPods

(***************************************************************************)
(* verify_keda_installation                                                *)
(***************************************************************************)
required_crds == {"scaledobjects.keda.sh", "triggerauthentications.keda.sh"}

\* one listing of verify_keda_installation: it must exit 0 and print `needed`
VerifyStep(at, cmd, tokens, needed, next) ==
    /\ pc = at
    /\ \E rc \in ExitCodes(TRUE), stdout \in Stdouts(tokens) :
          /\ trace' = run_command(cmd \o KubeconfigFlag, TRUE, rc)
          /\ IF rc = 0 /\ needed \subseteq stdout
                THEN IF next = "returned" THEN Return(TRUE)
                                          ELSE pc' = next /\ UNCHANGED ret
                ELSE Return(FALSE)
    /\ UNCHANGED <<Config, helm_installed, keda_installed, helm_path, op, call,
                   status, workload_status, pod_list, printed, exit_code, nops, listed, files>>

VerifyKedaPods ==
    VerifyStep("vk_pods", "kubectl get pods -n keda",
               {"keda-operator", "Running"}, {"keda-operator", "Running"},
               "vk_deployments")

VerifyKedaDeployments ==
    VerifyStep("vk_deployments", "kubectl get deployments -n keda",
               {"keda-operator", "1/1"}, {"keda-operator", "1/1"}, "vk_crd")

VerifyKedaCrds ==
    VerifyStep("vk_crd", "kubectl get crd", required_crds, required_crds, "returned")

verify_keda_installation ==
    \/ VerifyKedaPods
    \/ VerifyKedaDeployments
    \/ VerifyKedaCrds

(***************************************************************************)
(* create_deployment                                                       *)
(***************************************************************************)
\* line 186-189: the defaults of ports and keda_config
PortsOrDefault(ports) == IF ports = None THEN <<80>> ELSE Elem(ports)
PolicyOrDefault(keda_config) == IF keda_config = None THEN EmptyPolicy ELSE Elem(keda_config)

\* f"{image}:{tag}"
ImageRef(image, tag) == image \o ":" \o tag

\* line 192-220: the document, from the call's arguments and the namespace
deployment_doc(c, ns) ==
    [apiVersion |-> "apps/v1",
     kind |-> "Deployment",
     metadata |-> [name |-> c.name, namespace |-> ns],
     spec |->
       [replicas |-> c.replicas,
        selector |-> [matchLabels |-> [app |-> c.name]],
        template |->
          [metadata |-> [labels |-> [app |-> c.name]],
           spec |->
             [containers |->
                << [name |-> c.name,
                    image |-> ImageRef(c.image, c.tag),
                    ports |-> [i \in 1..Len(c.ports) |-> [containerPort |-> c.ports[i]]],
                    resources |->
                      [requests |-> [cpu |-> c.cpu_request, memory |-> c.memory_request],
                       limits |-> [cpu |-> c.cpu_limit, memory |-> c.memory_limit]]] >>]]]]

\* a workload document that names the namespace only when no kubeconfig is set
Deployment_ReadsKubeconfig(c) ==
    deployment_doc(c, IF kubeconfig = None THEN namespace ELSE "default")

Deployment(c) == deployment_doc(c, namespace)

\* a service that forwards every port to the container's port 80
Service_FixedTargetPort(c) ==
    [apiVersion |-> "v1",
     kind |-> "Service",
     metadata |-> [name |-> c.name \o "-service", namespace |-> namespace],
     spec |->
       [selector |-> [app |-> c.name],
        ports |-> [i \in 1..Len(c.ports) |-> [port |-> c.ports[i], targetPort |-> 80]],
        type |-> "ClusterIP"]]

\* line 232-241: the document, from the call's arguments and the namespace
service_doc(c, ns) ==
    [apiVersion |-> "v1",
     kind |-> "Service",
     metadata |-> [name |-> c.name \o "-service", namespace |-> ns],
     spec |->
       [selector |-> [app |-> c.name],
        ports |-> [i \in 1..Len(c.ports) |-> [port |-> c.ports[i], targetPort |-> c.ports[i]]],
        type |-> "ClusterIP"]]

Service(c) == service_doc(c, namespace)

\* an autoscaling document with the two default bounds exchanged
ScaledObject_SwappedDefaults(c) ==
    [apiVersion |-> "keda.sh/v1alpha1",
     kind |-> "ScaledObject",
     metadata |-> [name |-> c.name \o "-scaled", namespace |-> namespace],
     spec |->
       [scaleTargetRef |-> [apiVersion |-> "apps/v1", kind |-> "Deployment", name |-> c.name],
        minReplicaCount |-> Get(c.keda_config, "min_replicas", 10),
        maxReplicaCount |-> Get(c.keda_config, "max_replicas", 1),
        triggers |-> Get(c.keda_config, "triggers", << >>)]]

\* line 253-270: the document, from the call's arguments and the namespace
scaled_object_doc(c, ns) ==
    [apiVersion |-> "keda.sh/v1alpha1",
     kind |-> "ScaledObject",
     metadata |-> [name |-> c.name \o "-scaled", namespace |-> ns],
     spec |->
       [scaleTargetRef |-> [apiVersion |-> "apps/v1", kind |-> "Deployment", name |-> c.name],
        minReplicaCount |-> Get(c.keda_config, "min_replicas", 1),
        maxReplicaCount |-> Get(c.keda_config, "max_replicas", 10),
        triggers |-> Get(c.keda_config, "triggers", << >>)]]

ScaledObject(c) == scaled_object_doc(c, namespace)

deployment_file(name) == name \o "-deployment.yaml"
service_file(name) == name \o "-service.yaml"
scaled_object_file(name) == name \o "-scaledobject.yaml"

ApplyCmd(file) == "kubectl apply -f " \o file \o KubeconfigFlag

\* the service step without its test of ports
WantsService_Always == TRUE
\* the autoscaling step without its test of keda_installed
WantsScaledObject_IgnoresController == Truthy(call.keda_config)

\* line 231: `if ports:`
WantsService == call.ports # << >>
\* line 252: `if keda_config and self.keda_installed:`
WantsScaledObject == Truthy(call.keda_config) /\ keda_installed

\* where create_deployment goes after the service step, and after the workload step
AfterService == IF WantsScaledObject THEN "cd_write_so" ELSE "returned"
AfterDeployment == IF WantsService THEN "cd_write_svc" ELSE AfterService

Goto(next) == IF next = "returned" THEN Return(TRUE) ELSE pc' = next /\ UNCHANGED ret

\* a write whose error is swallowed: the next step runs all the same
WriteManifest_IgnoresError(at, file, kind, doc, next) ==
    /\ pc = at
    /\ \E rc \in {0, 1} :
          /\ trace' = write_file(file, rc)
          /\ files' = IF rc = 0 THEN [files EXCEPT ![kind] = Some(doc)] ELSE files
          /\ Goto(next)
    /\ UNCHANGED <<Config, helm_installed, keda_installed, helm_path, op, call,
                   status, workload_status, pod_list, printed, exit_code, nops, listed>>

\* open(file, 'w') and yaml.dump(doc, f): the document is on disk when both succeed
WriteManifest(at, file, kind, doc, next) ==
    /\ pc = at
    /\ \E rc \in {0, 1} :
          /\ trace' = write_file(file, rc)
          /\ IF rc = 0
                THEN files' = [files EXCEPT ![kind] = Some(doc)] /\ Goto(next)
                ELSE UNCHANGED files /\ Return(FALSE)
    /\ UNCHANGED <<Config, helm_installed, keda_installed, helm_path, op, call,
                   status, workload_status, pod_list, printed, exit_code, nops, listed>>

\* an apply whose failure removes the manifest files written so far
ApplyManifest_RollsBack(at, file, next) ==
    /\ pc = at
    /\ \E rc \in ExitCodes(TRUE) :
          /\ trace' = run_command(ApplyCmd(file), TRUE, rc)
          /\ IF rc = 0 THEN Goto(next) /\ UNCHANGED files
                       ELSE Return(FALSE) /\ files' = NoFiles
    /\ UNCHANGED <<Config, helm_installed, keda_installed, helm_path, op, call,
                   status, workload_status, pod_list, printed, exit_code, nops, listed>>

\* an apply whose failure is not raised (check=False)
ApplyManifest_Unchecked(at, file, next) ==
    /\ pc = at
    /\ \E rc \in ExitCodes(TRUE) :
          /\ trace' = run_command(ApplyCmd(file), TRUE, rc)
          /\ Goto(next)
    /\ UNCHANGED <<Config, helm_installed, keda_installed, helm_path, op, call,
                   status, workload_status, pod_list, printed, exit_code, nops, listed, files>>

\* self.run_command(f"kubectl apply -f {file}" ...)
ApplyManifest(at, file, next) ==
    /\ pc = at
    /\ \E rc \in ExitCodes(TRUE) :
          /\ trace' = run_command(ApplyCmd(file), TRUE, rc)
          /\ IF rc = 0 THEN Goto(next) ELSE Return(FALSE)
    /\ UNCHANGED <<Config, helm_installed, keda_installed, helm_path, op, call,
                   status, workload_status, pod_list, printed, exit_code, nops, listed, files>>

WriteDeployment ==
    WriteManifest("cd_write_dep", deployment_file(call.name), "deployment",
                  Deployment(call), "cd_apply_dep")

ApplyDeployment ==
    ApplyManifest("cd_apply_dep", deployment_file(call.name), AfterDeployment)

WriteService ==
    WriteManifest("cd_write_svc", service_file(call.name), "service",
                  Service(call), "cd_apply_svc")

ApplyService ==
    ApplyManifest("cd_apply_svc", service_file(call.name), AfterService)

WriteScaledObject ==
    WriteManifest("cd_write_so", scaled_object_file(call.name), "scaledobject",
                  ScaledObject(call), "cd_apply_so")

ApplyScaledObject ==
    ApplyManifest("cd_apply_so", scaled_object_file(call.name), "returned")

create_deployment ==
    \/ WriteDeployment
    \/ ApplyDeployment
    \/ WriteService
    \/ ApplyService
    \/ WriteScaledObject
    \/ ApplyScaledObject

\* entering create_deployment with the given parameters; res carries the four
\* resource strings (cpu_request, cpu_limit, memory_request, memory_limit)
EnterCreateDeployment(name, image, tag, replicas, res, ports, keda_config) ==
    /\ op' = "create_deployment"
    /\ call' = [name |-> name, image |-> image, tag |-> tag, replicas |-> replicas,
                cpu_request |-> res.cpu_request, cpu_limit |-> res.cpu_limit,
                memory_request |-> res.memory_request,
                memory_limit |-> res.memory_limit,
                ports |-> PortsOrDefault(ports),
                keda_config |-> PolicyOrDefault(keda_config)]
    /\ pc' = "cd_write_dep"

(***************************************************************************)
(* get_deployment_status                                                   *)
(***************************************************************************)
\* the status object of `kubectl get deployment -o json`
DeploymentStatuses ==
    { [readyReplicas |-> None, availableReplicas |-> None,
       unavailableReplicas |-> None, conditions |-> None],
      [readyReplicas |-> Some(2), availableReplicas |-> None,
       unavailableReplicas |-> Some(1), conditions |-> None],
      [readyReplicas |-> Some(3), availableReplicas |-> Some(3),
       unavailableReplicas |-> Some(0), conditions |-> Some(<<"Available">>)] }

\* what the workload query may print: text that is not the expected JSON, or
\* a deployment with one of the status objects
DeploymentResponses ==
    {[valid |-> FALSE, status |-> CHOOSE d \in DeploymentStatuses : TRUE]}
    \cup {[valid |-> TRUE, status |-> d] : d \in DeploymentStatuses}

\* the items of `kubectl get pods -o json`; containerStatuses may be missing
PodItems ==
    { [name |-> "pod-a", phase |-> "Pending", containerStatuses |-> None],
      [name |-> "pod-b", phase |-> "Running",
       containerStatuses |-> Some(<<[ready |-> TRUE, restartCount |-> 0]>>)],
      [name |-> "pod-c", phase |-> "Running",
       containerStatuses |-> Some(<<[ready |-> FALSE, restartCount |-> 2]>>)],
      [name |-> "pod-d", phase |-> "Running",
       containerStatuses |-> Some(<<[ready |-> TRUE, restartCount |-> 1],
                                    [ready |-> FALSE, restartCount |-> 3]>>)],
      [name |-> "pod-e", phase |-> "Running",
       containerStatuses |-> Some(<<[ready |-> TRUE, restartCount |-> 1],
                                    [ready |-> TRUE, restartCount |-> 2]>>)] }

PodLists == UNION {[1..k -> PodItems] : k \in 0..MaxPods}

PodResponses ==
    {[valid |-> FALSE, items |-> << >>]} \cup {[valid |-> TRUE, items |-> l] : l \in PodLists}

\* any() in place of all()
AllReady_Any(cs) == \E j \in DOMAIN cs : cs[j].ready

\* all(c["ready"] for c in cs)
RECURSIVE AllReady(_)
AllReady(cs) == IF cs = << >> THEN TRUE ELSE Head(cs).ready /\ AllReady(Tail(cs))

\* sum(c["restartCount"] for c in cs)
RECURSIVE SumRestarts(_)
SumRestarts(cs) == IF cs = << >> THEN 0 ELSE Head(cs).restartCount + SumRestarts(Tail(cs))

\* line 312-317
PodStatus(pod) ==
    [name |-> pod.name,
     status |-> pod.phase,
     ready |-> AllReady(Get(pod, "containerStatuses", << >>)),
     restarts |-> SumRestarts(Get(pod, "containerStatuses", << >>))]

\* line 310-318
PodStatuses(items) == [i \in 1..Len(items) |-> PodStatus(items[i])]

DeploymentQuery ==
    "kubectl get deployment " \o call.name \o " -n " \o namespace \o " -o json"
       \o KubeconfigFlag
PodQuery ==
    "kubectl get pods -n " \o namespace \o " -l app=" \o call.name \o " -o json"
       \o KubeconfigFlag

\* a replica counter that is 1 when the workload status omits it
Counter_DefaultsToOne(w, key) == Get(w, key, 1)

\* line 298-300: deployment["status"].get(key, 0)
Counter(w, key) == Get(w, key, 0)

\* line 290-302: the record has no "pods" key yet
QueryDeployment ==
    /\ pc = "gs_deployment"
    /\ \E rc \in ExitCodes(TRUE), out \in DeploymentResponses :
          /\ trace' = IF rc = 0
                         THEN json_loads(run_command(DeploymentQuery, TRUE, rc),
                                         DeploymentQuery, out.valid)
                         ELSE run_command(DeploymentQuery, TRUE, rc)
          /\ IF rc = 0 /\ out.valid
                THEN /\ status' =
                          Some([name |-> call.name,
                                ready_replicas |-> Counter(out.status, "readyReplicas"),
                                available_replicas |->
                                   Counter(out.status, "availableReplicas"),
                                unavailable_replicas |->
                                   Counter(out.status, "unavailableReplicas"),
                                conditions |-> Get(out.status, "conditions", << >>),
                                pods |-> None])
                     /\ workload_status' = Some(out.status)
                     /\ pc' = "gs_pods"
                     /\ UNCHANGED ret
                ELSE status' = None /\ UNCHANGED workload_status /\ Return(FALSE)
    /\ UNCHANGED <<Config, helm_installed, keda_installed, helm_path, op, call,
                   pod_list, printed, exit_code, nops, listed, files>>

\* a pod query whose failure returns the record built so far
QueryPods_ReturnsPartial ==
    /\ pc = "gs_pods"
    /\ \E rc \in ExitCodes(TRUE), out \in PodResponses :
          /\ trace' = IF rc = 0
                         THEN json_loads(run_command(PodQuery, TRUE, rc),
                                         PodQuery, out.valid)
                         ELSE run_command(PodQuery, TRUE, rc)
          /\ IF rc = 0 /\ out.valid
                THEN /\ status' =
                          Some([Elem(status) EXCEPT !.pods = Some(PodStatuses(out.items))])
                     /\ pod_list' = out.items
                     /\ Return(TRUE)
                ELSE UNCHANGED <<status, pod_list>> /\ Return(TRUE)
    /\ UNCHANGED <<Config, helm_installed, keda_installed, helm_path, op, call,
                   workload_status, printed, exit_code, nops, listed, files>>

\* line 304-324
QueryPods ==
    /\ pc = "gs_pods"
    /\ \E rc \in ExitCodes(TRUE), out \in PodResponses :
          /\ trace' = IF rc = 0
                         THEN json_loads(run_command(PodQuery, TRUE, rc),
                                         PodQuery, out.valid)
                         ELSE run_command(PodQuery, TRUE, rc)
          /\ IF rc = 0 /\ out.valid
                THEN /\ status' =
                          Some([Elem(status) EXCEPT !.pods = Some(PodStatuses(out.items))])
                     /\ pod_list' = out.items
                     /\ Return(TRUE)
                ELSE status' = None /\ UNCHANGED pod_list /\ Return(FALSE)
    /\ UNCHANGED <<Config, helm_installed, keda_installed, helm_path, op, call,
                   workload_status, printed, exit_code, nops, listed, files>>

get_deployment_status ==
    \/ QueryDeployment
    \/ QueryPods

EnterGetDeploymentStatus(name) ==
    /\ op' = "get_deployment_status"
    /\ call' = [NoCall EXCEPT !.name = name]
    /\ pc' = "gs_deployment"

(***************************************************************************)
(* main                                                                    *)
(***************************************************************************)
Exit(code) == pc' = "exited" /\ exit_code' = code

\* line 362-363
MainConnect ==
    /\ pc = "main" /\ command = "connect"
    /\ op' = "connect_to_cluster"
    /\ pc' = "connect"
    /\ UNCHANGED <<Config, helm_installed, keda_installed, helm_path, call, ret,
                   status, workload_status, pod_list, printed, exit_code, nops, listed, trace, files>>

\* line 366-372: what install does first
MainInstall ==
    /\ pc = "main" /\ command = "install"
    /\ IF args.helm
          THEN op' = "install_helm" /\ pc' = "ih_probe" /\ UNCHANGED <<ret, exit_code>>
          ELSE IF args.keda
                  THEN EnterInstallKeda /\ UNCHANGED exit_code
                  ELSE Exit(0) /\ UNCHANGED <<op, ret>>
    /\ UNCHANGED <<Config, helm_installed, keda_installed, helm_path, call, status, workload_status, pod_list,
                   printed, nops, listed, trace, files>>

\* a deploy that takes the controller as installed when a policy file is given
MainDeploy_AssumesKeda ==
    /\ pc = "main" /\ command = "deploy"
    /\ IF args.keda_config.given /\ ~args.keda_config.loads
          THEN Exit(1) /\ UNCHANGED <<op, call>>
          ELSE /\ EnterCreateDeployment(
                     args.name, args.image, args.tag, args.replicas, args,
                     Some(args.ports),
                     Some(IF args.keda_config.given THEN args.keda_config.content
                                                    ELSE EmptyPolicy))
               /\ UNCHANGED exit_code
    /\ keda_installed' = args.keda_config.given
    /\ UNCHANGED <<Config, helm_installed, helm_path, ret, status, workload_status, pod_list,
                   printed, nops, listed, trace, files>>

\* line 374-395: load the --keda-config file, then call create_deployment
MainDeploy ==
    /\ pc = "main" /\ command = "deploy"
    /\ IF args.keda_config.given /\ ~args.keda_config.loads
          THEN Exit(1) /\ UNCHANGED <<op, call>>
          ELSE /\ EnterCreateDeployment(
                     args.name, args.image, args.tag, args.replicas, args,
                     Some(args.ports),
                     Some(IF args.keda_config.given THEN args.keda_config.content
                                                    ELSE EmptyPolicy))
               /\ UNCHANGED exit_code
    /\ UNCHANGED <<Config, helm_installed, keda_installed, helm_path, ret, status, workload_status, pod_list,
                   printed, nops, listed, trace, files>>

\* line 399-400
MainStatus ==
    /\ pc = "main" /\ command = "status"
    /\ EnterGetDeploymentStatus(args.name)
    /\ UNCHANGED <<Config, helm_installed, keda_installed, helm_path, ret, status, workload_status, pod_list,
                   printed, exit_code, nops, listed, trace, files>>

\* a main that ignores the outcome of connect, install_keda and create_deployment
MainReturn_IgnoresOutcome ==
    /\ pc = "returned" /\ command # "session"
    /\ CASE op = "install_helm" ->
              IF ~ret THEN Exit(1) /\ UNCHANGED <<op, ret, printed>>
              ELSE IF args.keda THEN EnterInstallKeda /\ UNCHANGED <<exit_code, printed>>
              ELSE Exit(0) /\ UNCHANGED <<op, ret, printed>>
         [] op = "get_deployment_status" ->
              /\ IF status # None THEN printed' = status /\ Exit(0)
                                  ELSE Exit(1) /\ UNCHANGED printed
              /\ UNCHANGED <<op, ret>>
         [] OTHER ->
              /\ Exit(0)
              /\ UNCHANGED <<op, ret, printed>>
    /\ UNCHANGED <<Config, helm_installed, keda_installed, helm_path, call, status,
                   workload_status, pod_list, nops, listed, trace, files>>

\* what main does when the operation it called returns
MainReturn ==
    /\ pc = "returned" /\ command # "session"
    /\ CASE op = "install_helm" ->
              \* line 368-372
              IF ~ret THEN Exit(1) /\ UNCHANGED <<op, ret, printed>>
              ELSE IF args.keda THEN EnterInstallKeda /\ UNCHANGED <<exit_code, printed>>
              ELSE Exit(0) /\ UNCHANGED <<op, ret, printed>>
         [] op = "get_deployment_status" ->
              \* line 401-404: `if status:` is true of any record
              /\ IF status # None THEN printed' = status /\ Exit(0)
                                  ELSE Exit(1) /\ UNCHANGED printed
              /\ UNCHANGED <<op, ret>>
         [] OTHER ->
              \* line 363-364, 371-372, 396-397
              /\ Exit(IF ret THEN 0 ELSE 1)
              /\ UNCHANGED <<op, ret, printed>>
    /\ UNCHANGED <<Config, helm_installed, keda_installed, helm_path, call, status, workload_status, pod_list,
                   nops, listed, trace, files>>

main ==
    \/ MainConnect
    \/ MainInstall
    \/ MainDeploy
    \/ MainStatus
    \/ MainReturn

(***************************************************************************)
(* The object driven directly: any operation, one after the other.  trace, *)
(* files and status start afresh with each operation.                      *)
(***************************************************************************)
CanCall == command = "session" /\ pc \in {"idle", "returned"} /\ nops < MaxOps

Fresh ==
    /\ trace' = << >>
    /\ files' = NoFiles
    /\ status' = None
    /\ workload_status' = None
    /\ pod_list' = << >>
    /\ nops' = nops + 1
    /\ listed' = None

CallConnect ==
    /\ CanCall /\ Fresh
    /\ op' = "connect_to_cluster" /\ pc' = "connect"
    /\ UNCHANGED <<Config, helm_installed, keda_installed, helm_path, call, ret,
                   printed, exit_code>>

CallInstallHelm ==
    /\ CanCall /\ Fresh
    /\ op' = "install_helm" /\ pc' = "ih_probe"
    /\ UNCHANGED <<Config, helm_installed, keda_installed, helm_path, call, ret,
                   printed, exit_code>>

CallInstallKeda ==
    /\ CanCall /\ Fresh
    /\ EnterInstallKeda
    /\ UNCHANGED <<Config, helm_installed, keda_installed, helm_path, call, printed,
                   exit_code>>

CallVerifyKeda ==
    /\ CanCall /\ Fresh
    /\ op' = "verify_keda_installation" /\ pc' = "vk_pods"
    /\ UNCHANGED <<Config, helm_installed, keda_installed, helm_path, call, ret,
                   printed, exit_code>>

CallCreateDeployment ==
    /\ CanCall /\ Fresh
    /\ \E n \in Names, i \in Images, t \in ApiTags, r \in ApiReplicaCounts, p \in ApiPorts,
          kc \in {None} \cup {Some(x) : x \in Policies} :
          EnterCreateDeployment(n, i, t, r, DefaultArgs, p, kc)
    /\ UNCHANGED <<Config, helm_installed, keda_installed, helm_path, ret, printed,
                   exit_code>>

CallGetDeploymentStatus ==
    /\ CanCall /\ Fresh
    /\ \E n \in Names : EnterGetDeploymentStatus(n)
    /\ UNCHANGED <<Config, helm_installed, keda_installed, helm_path, ret, printed,
                   exit_code>>

session ==
    \/ CallConnect
    \/ CallInstallHelm
    \/ CallInstallKeda
    \/ CallVerifyKeda
    \/ CallCreateDeployment
    \/ CallGetDeploymentStatus

Next ==
    \/ main
    \/ session
    \/ connect_to_cluster
    \/ install_helm
    \/ install_keda
    \/ verify_keda_installation
    \/ create_deployment
    \/ get_deployment_status

Spec == Init /\ [][Next]_vars

(***************************************************************************)
(* Reading the trace.                                                      *)
(***************************************************************************)
IsWrite(e, file) == e.kind = "write" /\ e.what = file
IsApply(e, file) == e.kind = "run" /\ e.what = ApplyCmd(file)
Failed(e) == e.rc # 0

\* the place of an event among the six steps of create_deployment, 0 for any other
Stage(e) ==
    CASE IsWrite(e, deployment_file(call.name)) -> 1
      [] IsApply(e, deployment_file(call.name)) -> 2
      [] IsWrite(e, service_file(call.name)) -> 3
      [] IsApply(e, service_file(call.name)) -> 4
      [] IsWrite(e, scaled_object_file(call.name)) -> 5
      [] IsApply(e, scaled_object_file(call.name)) -> 6
      [] OTHER -> 0

HasStage(n) == \E i \in DOMAIN trace : Stage(trace[i]) = n
StageOk(n) == \E i \in DOMAIN trace : Stage(trace[i]) = n /\ ~Failed(trace[i])

Ended == pc \in {"returned", "exited"}

\* the events of the operations: all but the constructor's `where helm`, which
\* heads the trace until a session's first call starts it afresh
OpEvents == {i \in DOMAIN trace : nops > 0 \/ i > 1}

(***************************************************************************)
(* C1: create_deployment writes and applies the workload, then the         *)
(* service, then the autoscaling policy; the first failing write or apply  *)
(* is the last thing it does: nothing is written or applied after it and   *)
(* the operation returns failure.                                          *)
(***************************************************************************)
C1_DeployOrderShortCircuit ==
    op = "create_deployment" =>
       /\ \A i, j \in DOMAIN trace :
             (i < j /\ Stage(trace[i]) > 0 /\ Stage(trace[j]) > 0)
                => Stage(trace[i]) < Stage(trace[j])
       /\ \A j \in DOMAIN trace :
             /\ Stage(trace[j]) > 2 => StageOk(2)
             /\ (Stage(trace[j]) > 4 /\ WantsService) => StageOk(4)
       /\ \A i \in DOMAIN trace :
             (Stage(trace[i]) > 0 /\ Failed(trace[i]))
                => /\ i = Len(trace)
                   /\ Ended /\ ~ret
                   /\ Stage(trace[i]) <= 2 => files.service = None
                   /\ Stage(trace[i]) <= 4 => files.scaledobject = None

\* the service apply failed while an autoscaling policy was still to be written
C1_Witness ==
    /\ op = "create_deployment" /\ pc = "returned" /\ ~ret
    /\ WantsScaledObject
    /\ Stage(trace[Len(trace)]) = 4 /\ Failed(trace[Len(trace)])
    /\ files.deployment # None /\ files.service # None /\ files.scaledobject = None

(***************************************************************************)
(* The commands of the install action, as they stand in the trace.         *)
(***************************************************************************)
ChocoCmd == "choco install kubernetes-helm -y"
WingetCmd == "winget install helm.helm"
WhereCmd == "where helm"

IsRun(e, cmd) == e.kind = "run" /\ e.what = cmd

\* a command of install_keda
IsKedaCmd(e) ==
    /\ e.kind = "run"
    /\ e.what \in
         { helm_path \o " repo add kedacore https://kedacore.github.io/charts",
           helm_path \o " repo update",
           helm_path \o " install keda kedacore/keda --namespace keda --create-namespace"
              \o KubeconfigFlagQuoted,
           "kubectl get pods -n keda" \o KubeconfigFlagQuoted }

\* a failure the code does not raise (check=False) or catches to fall back
Tolerated(e) == ~e.check \/ IsRun(e, ChocoCmd)

(***************************************************************************)
(* C2 as stated: in the install action the KEDA installation is attempted  *)
(* only after the Helm step succeeded, and after any failed command of     *)
(* install_helm or install_keda no further command is invoked and the      *)
(* process exits non-zero.                                                 *)
(***************************************************************************)
C2_Original ==
    command = "install" =>
       /\ (\E i \in OpEvents : IsKedaCmd(trace[i])) => helm_installed
       /\ \A i \in OpEvents :
             Failed(trace[i])
                => /\ i = Len(trace)
                   /\ pc = "exited" => exit_code = 1

(***************************************************************************)
(* C2 amended: in the install action the commands of install_keda are      *)
(* invoked only after install_helm succeeded in the same run; an           *)
(* install_helm or install_keda that returns failure ends the process with *)
(* exit code 1; and a failed command is the last command of the action,    *)
(* except inside install_helm, where a failed `helm version` probe is      *)
(* followed by the choco install, a failed choco install by the winget     *)
(* install, and a failed `where helm` by the final `helm version`.         *)
(***************************************************************************)
C2_InstallGated ==
    command = "install" =>
       /\ \A i \in OpEvents :
             IsKedaCmd(trace[i])
                => /\ args.helm /\ args.keda /\ helm_installed
                   /\ \E j \in OpEvents :
                         j < i /\ IsRun(trace[j], HelmVersionCmd) /\ ~Failed(trace[j])
       /\ \A i \in OpEvents :
             (Failed(trace[i]) /\ ~Tolerated(trace[i]))
                => i = Len(trace) /\ Ended /\ ~ret
       /\ \A i \in OpEvents :
             (Failed(trace[i]) /\ Tolerated(trace[i]) /\ i < Len(trace))
                => CASE IsRun(trace[i], ChocoCmd) -> IsRun(trace[i + 1], WingetCmd)
                     [] IsRun(trace[i], WhereCmd) -> IsRun(trace[i + 1], HelmVersionCmd)
                     [] OTHER -> IsRun(trace[i + 1], ChocoCmd)
       /\ (pc = "exited" /\ op # "none" /\ ~ret) => exit_code = 1

\* install --helm --keda: Helm was found, then the chart installation failed
C2_Witness ==
    /\ command = "install" /\ pc = "exited" /\ exit_code = 1
    /\ op = "install_keda" /\ helm_installed /\ ~keda_installed
    /\ \E i \in OpEvents : IsKedaCmd(trace[i]) /\ Failed(trace[i])

(***************************************************************************)
(* C3 as stated: a subcommand (connect, install, deploy, status) run while *)
(* the cluster does not answer (`kubectl cluster-info` and every other     *)
(* command that needs the cluster fail) exits with code 1 and writes no    *)
(* manifest file.                                                          *)
(***************************************************************************)
Subcommands == {"connect", "install", "deploy", "status"}

NoManifestWritten ==
    /\ files = NoFiles
    /\ \A i \in DOMAIN trace : trace[i].kind # "write"

C3_Original ==
    (command \in Subcommands /\ ~cluster_up) =>
       /\ NoManifestWritten
       /\ pc = "exited" => exit_code = 1

\* the deploy case alone: nothing checks the cluster before line 223 writes the file
C3_DeployWritesNothing ==
    (command = "deploy" /\ ~cluster_up) => NoManifestWritten

\* what the code does guarantee with the cluster down: connect, deploy and status
\* exit 1, and deploy writes the workload manifest only
C3_ClusterDown ==
    (command \in {"connect", "deploy", "status"} /\ ~cluster_up) =>
       /\ pc = "exited" => exit_code = 1
       /\ files.service = None /\ files.scaledobject = None

(***************************************************************************)
(* C4: the process exits with code 1 when its action reported a failure    *)
(* (a failed connect, install_helm, install_keda or create_deployment, an  *)
(* absent status, or a --keda-config file that cannot be loaded) and with  *)
(* code 0 otherwise.                                                       *)
(***************************************************************************)
\* the failure each subcommand reports, read from what happened
ReportedFailure ==
    CASE command = "connect" -> Failed(trace[Len(trace)])
      [] command = "install" ->
           ~((args.helm => helm_installed) /\ (args.keda => keda_installed))
      [] command = "deploy" ->
           \/ args.keda_config.given /\ ~args.keda_config.loads
           \/ \E i \in OpEvents : Failed(trace[i])
      [] command = "status" -> status = None \/ Elem(status).pods = None
      [] OTHER -> FALSE

C4_ExitCode ==
    (command \in Subcommands /\ pc = "exited") =>
       /\ exit_code = IF ReportedFailure THEN 1 ELSE 0
       /\ (op # "none" /\ ~ret) => exit_code = 1
       /\ (op # "none" /\ ret) => exit_code = 0

\* deploy: the workload was applied, the service apply failed, the process exits 1
C4_Witness ==
    /\ command = "deploy" /\ pc = "exited" /\ exit_code = 1
    /\ StageOk(2) /\ HasStage(4) /\ ~StageOk(4)

\* the --keda-config file cannot be loaded: exit 1 before anything is written
C4_WitnessKedaFile ==
    /\ command = "deploy" /\ pc = "exited" /\ exit_code = 1
    /\ args.keda_config.given /\ ~args.keda_config.loads
    /\ op = "none" /\ NoManifestWritten

(***************************************************************************)
(* C5 as stated: every non-zero exit of an invoked tool makes the          *)
(* operation that invoked it fail, and nothing more is invoked for that    *)
(* step after a failed invocation.                                         *)
(***************************************************************************)
C5_Original ==
    \A i \in OpEvents :
       (trace[i].kind = "run" /\ Failed(trace[i]))
          => i = Len(trace) /\ Ended /\ ~ret

(***************************************************************************)
(* C5 amended: every non-zero exit of a tool invoked with check=True,      *)
(* other than the choco install, makes the operation that invoked it       *)
(* return failure at once, with no further invocation; a failed choco      *)
(* install is followed by one winget install for the same step; a non-zero *)
(* exit under check=False (`where helm`, the first `helm version`) fails   *)
(* nothing; and no failed command is invoked again right after it failed.  *)
(***************************************************************************)
C5_FailureSurfaces ==
    \A i \in OpEvents :
       (trace[i].kind = "run" /\ Failed(trace[i])) =>
          /\ ~Tolerated(trace[i]) => (i = Len(trace) /\ Ended /\ ~ret)
          /\ i < Len(trace) => trace[i + 1].what # trace[i].what
          /\ (IsRun(trace[i], ChocoCmd) /\ i < Len(trace))
                => /\ IsRun(trace[i + 1], WingetCmd)
                   /\ \A j \in OpEvents : IsRun(trace[j], WingetCmd) => j = i + 1

\* install_helm succeeded although the probe and the choco install had failed
C5_Witness ==
    /\ op = "install_helm" /\ pc = "returned" /\ ret /\ helm_installed
    /\ \E i \in OpEvents :
          /\ IsRun(trace[i], ChocoCmd) /\ Failed(trace[i])
          /\ IsRun(trace[i + 1], WingetCmd) /\ ~Failed(trace[i + 1])

(***************************************************************************)
(* C6: create_deployment neither writes nor applies the autoscaling-policy *)
(* document when no policy is given (whatever keda_installed is) or when   *)
(* the controller is not installed; it writes and applies it exactly when  *)
(* a policy is given, the controller is installed and the earlier steps    *)
(* succeeded.  A policy is given when keda_config has a key: the empty     *)
(* mapping is what main passes when there is no --keda-config (line 375).  *)
(***************************************************************************)
EarlierStepsOk ==
    /\ StageOk(1) /\ StageOk(2)
    /\ WantsService => (StageOk(3) /\ StageOk(4))

C6_ScaledObjectExactlyWhen ==
    op = "create_deployment" =>
       /\ (~Truthy(call.keda_config) \/ ~keda_installed)
             => (~HasStage(5) /\ ~HasStage(6) /\ files.scaledobject = None)
       /\ Ended =>
             /\ HasStage(5) <=> (Truthy(call.keda_config) /\ keda_installed /\ EarlierStepsOk)
             /\ HasStage(6) <=> StageOk(5)
       /\ files.scaledobject # None <=> StageOk(5)

\* the policy document was written and applied
C6_Witness ==
    /\ op = "create_deployment" /\ pc = "returned" /\ ret
    /\ Truthy(call.keda_config) /\ keda_installed
    /\ files.scaledobject # None /\ StageOk(6)

\* the controller is installed and no policy is given: no document
C6_WitnessNoPolicy ==
    /\ op = "create_deployment" /\ pc = "returned" /\ ret
    /\ ~Truthy(call.keda_config) /\ keda_installed
    /\ files.scaledobject = None

(***************************************************************************)
(* C7: in the autoscaling document minReplicaCount is 1 and                *)
(* maxReplicaCount is 10 when the policy does not give them, a bound that  *)
(* is given is copied unchanged, and a missing trigger list is empty.      *)
(***************************************************************************)
C7_ReplicaDefaults ==
    files.scaledobject # None =>
       LET so == Elem(files.scaledobject).spec
           kc == call.keda_config
       IN  /\ kc.min_replicas = None => so.minReplicaCount = 1
           /\ kc.min_replicas # None => {so.minReplicaCount} = kc.min_replicas
           /\ kc.max_replicas = None => so.maxReplicaCount = 10
           /\ kc.max_replicas # None => {so.maxReplicaCount} = kc.max_replicas
           /\ kc.triggers = None => so.triggers = << >>
           /\ kc.triggers # None => {so.triggers} = kc.triggers

\* a policy with triggers and no bounds was written with the bounds 1 and 10
C7_Witness ==
    /\ files.scaledobject # None
    /\ call.keda_config.min_replicas = None /\ call.keda_config.max_replicas = None
    /\ Elem(files.scaledobject).spec.minReplicaCount = 1
    /\ Elem(files.scaledobject).spec.maxReplicaCount = 10

(***************************************************************************)
(* C8: when the port list passed to create_deployment is empty, no         *)
(* service document is written and no service apply is invoked, while the  *)
(* workload step runs and, when a policy is given and the controller is    *)
(* installed, the autoscaling step runs after it.                          *)
(***************************************************************************)
C8_NoServiceWithoutPorts ==
    (op = "create_deployment" /\ call.ports = << >>) =>
       /\ files.service = None /\ ~HasStage(3) /\ ~HasStage(4)
       /\ pc = "returned" =>
             /\ HasStage(1)
             /\ StageOk(1) => HasStage(2)
             /\ (StageOk(2) /\ WantsScaledObject) => HasStage(5)
             /\ (StageOk(2) /\ ~WantsScaledObject) => ret

\* no ports: the workload and the policy were written and applied, no service
C8_Witness ==
    /\ op = "create_deployment" /\ pc = "returned" /\ ret
    /\ call.ports = << >>
    /\ files.deployment # None /\ files.scaledobject # None /\ files.service = None
    /\ StageOk(2) /\ StageOk(6)

(***************************************************************************)
(* C9: the workload document carries the given replica count, the image    *)
(* image:tag and one containerPort per given port, in order; the service   *)
(* document exposes the same ports (port = targetPort) and selects the     *)
(* workload's pod label app=<name>.                                        *)
(***************************************************************************)
C9_DocumentsCarryInput ==
    /\ files.deployment # None =>
          LET d == Elem(files.deployment)
              cs == d.spec.template.spec.containers
          IN  /\ d.spec.replicas = call.replicas
              /\ Len(cs) = 1
              /\ cs[1].image = call.image \o ":" \o call.tag
              /\ Len(cs[1].ports) = Len(call.ports)
              /\ \A i \in DOMAIN call.ports :
                    cs[1].ports[i] = [containerPort |-> call.ports[i]]
              /\ d.spec.template.metadata.labels = [app |-> call.name]
              /\ d.spec.selector.matchLabels = [app |-> call.name]
    /\ files.service # None =>
          LET sv == Elem(files.service)
          IN  /\ call.ports # << >>
              /\ Len(sv.spec.ports) = Len(call.ports)
              /\ \A i \in DOMAIN call.ports :
                    sv.spec.ports[i] = [port |-> call.ports[i], targetPort |-> call.ports[i]]
              /\ sv.spec.selector = [app |-> call.name]
              /\ files.deployment # None
              /\ sv.spec.selector = Elem(files.deployment).spec.template.metadata.labels
    \* under main the documents carry the command line
    /\ (command = "deploy" /\ op = "create_deployment") =>
          /\ call.name = args.name /\ call.image = args.image /\ call.tag = args.tag
          /\ call.replicas = args.replicas /\ call.ports = args.ports
    \* deploy myapp nginx --tag 1.25 --replicas 3 --ports 8080
    /\ ( /\ command = "deploy" /\ files.deployment # None
         /\ args.name = "myapp" /\ args.image = "nginx" /\ args.tag = "1.25"
         /\ args.replicas = 3 /\ args.ports = <<8080>> ) =>
          LET c == Elem(files.deployment).spec.template.spec.containers[1]
          IN  /\ Elem(files.deployment).spec.replicas = 3
              /\ c.image = "nginx:1.25"
              /\ c.ports = <<[containerPort |-> 8080]>>
              /\ files.service # None =>
                    Elem(files.service).spec.ports = <<[port |-> 8080, targetPort |-> 8080]>>

\* deploy myapp nginx --tag 1.25 --replicas 3 --ports 8080 wrote both documents
C9_Witness ==
    /\ command = "deploy" /\ pc = "exited" /\ exit_code = 0
    /\ args.tag = "1.25" /\ args.replicas = 3 /\ args.ports = <<8080>>
    /\ files.deployment # None /\ files.service # None

(***************************************************************************)
(* C10 as stated: the readiness flag is true iff every container status in *)
(* every matched pod reports ready, and the restart count is the sum of    *)
(* restartCount across all containers of all matched pods.                 *)
(***************************************************************************)
Complete == status # None /\ Elem(status).pods # None
Reported == Elem(Elem(status).pods)
Containers(pod) == IF pod.containerStatuses = None THEN << >> ELSE Elem(pod.containerStatuses)

\* the restartCount of the first n container statuses, added up
RECURSIVE RestartsUpTo(_, _)
RestartsUpTo(cs, n) == IF n = 0 THEN 0 ELSE cs[n].restartCount + RestartsUpTo(cs, n - 1)
Restarts(pod) == RestartsUpTo(Containers(pod), Len(Containers(pod)))

RECURSIVE RestartsOfPods(_, _)
RestartsOfPods(pods, n) == IF n = 0 THEN 0 ELSE Restarts(pods[n]) + RestartsOfPods(pods, n - 1)

EveryContainerReady(pod) == \A j \in DOMAIN Containers(pod) : Containers(pod)[j].ready

C10_Original ==
    Complete =>
       \A i \in DOMAIN Reported :
          /\ Reported[i].ready <=> \A k \in DOMAIN pod_list : EveryContainerReady(pod_list[k])
          /\ Reported[i].restarts = RestartsOfPods(pod_list, Len(pod_list))

(***************************************************************************)
(* C10 amended: the status record holds one entry per matched pod, in      *)
(* order; a pod's readiness flag is true iff every container status of     *)
(* that pod reports ready (true for a pod without container statuses) and  *)
(* its restart count is the sum of restartCount across that pod's          *)
(* containers.  Nothing is aggregated across pods.                         *)
(***************************************************************************)
C10_PerPodFold ==
    Complete =>
       /\ Len(Reported) = Len(pod_list)
       /\ \A i \in DOMAIN Reported :
             /\ Reported[i].name = pod_list[i].name
             /\ Reported[i].status = pod_list[i].phase
             /\ Reported[i].ready <=> EveryContainerReady(pod_list[i])
             /\ Reported[i].restarts = Restarts(pod_list[i])

\* two pods, one with a container that is not ready and has restarted
C10_Witness ==
    /\ Complete /\ pc = "returned" /\ op = "get_deployment_status"
    /\ Len(Reported) = 2
    /\ Reported[1].ready /\ ~Reported[2].ready
    /\ Reported[1].restarts = 3 /\ Reported[2].restarts = 4

(***************************************************************************)
(* C11: get_deployment_status returns None, never a partial record, when   *)
(* the workload query or the pod-list query fails or a response is not the *)
(* expected JSON; after a failed workload query the pod-list query is not  *)
(* issued; the status subcommand then prints no record and exits 1.        *)
(***************************************************************************)
IsQuery(e, cmd) == e.kind \in {"run", "parse"} /\ e.what = cmd

C11_AbsentOnFailure ==
    op = "get_deployment_status" =>
       /\ \A i \in OpEvents :
             Failed(trace[i]) => (i = Len(trace) /\ Ended /\ status = None /\ ~ret)
       /\ Ended => (status = None \/ Complete)
       /\ (Ended /\ ret) <=> (Ended /\ status # None)
       /\ \A i, j \in OpEvents :
             (IsQuery(trace[i], DeploymentQuery) /\ Failed(trace[i]))
                => ~IsQuery(trace[j], PodQuery)
       /\ (command = "status" /\ pc = "exited" /\ status = None)
             => (printed = None /\ exit_code = 1)
       /\ (command = "status" /\ pc = "exited" /\ status # None)
             => (printed = status /\ exit_code = 0)

\* status: the workload query answered, the pod list was not the expected JSON
C11_Witness ==
    /\ command = "status" /\ pc = "exited" /\ exit_code = 1
    /\ status = None /\ printed = None
    /\ \E i, j \in OpEvents :
          /\ trace[i].kind = "parse" /\ trace[i].what = DeploymentQuery /\ ~Failed(trace[i])
          /\ trace[j].kind = "parse" /\ trace[j].what = PodQuery /\ Failed(trace[j])

(***************************************************************************)
(* C12: when the workload query succeeds, the pod query returns no pod and *)
(* the workload status omits its replica counters, the status action       *)
(* succeeds (exit 0) with ready_replicas, available_replicas and           *)
(* unavailable_replicas 0 and an empty pod list; a counter that is missing *)
(* is always reported as 0, one that is present as it is.                  *)
(***************************************************************************)
CounterIs(reported, given) ==
    IF given = None THEN reported = 0 ELSE {reported} = given

NoCounters(w) ==
    w.readyReplicas = None /\ w.availableReplicas = None /\ w.unavailableReplicas = None

C12_MissingCountersAreZero ==
    /\ status # None =>
          /\ workload_status # None
          /\ CounterIs(Elem(status).ready_replicas, Elem(workload_status).readyReplicas)
          /\ CounterIs(Elem(status).available_replicas,
                       Elem(workload_status).availableReplicas)
          /\ CounterIs(Elem(status).unavailable_replicas,
                       Elem(workload_status).unavailableReplicas)
    /\ Complete => (pod_list = << >> <=> Reported = << >>)
    /\ ( /\ command = "status" /\ pc = "exited"
         /\ \A i \in OpEvents : ~Failed(trace[i]) ) =>
          /\ exit_code = 0 /\ Complete /\ printed = status
          /\ (NoCounters(Elem(workload_status)) /\ pod_list = << >>) =>
                /\ Elem(printed).ready_replicas = 0
                /\ Elem(printed).available_replicas = 0
                /\ Elem(printed).unavailable_replicas = 0
                /\ Elem(printed).pods = Some(<< >>)

\* status myapp: no counters in the workload status, no matching pod, exit 0
C12_Witness ==
    /\ command = "status" /\ pc = "exited" /\ exit_code = 0
    /\ workload_status # None /\ NoCounters(Elem(workload_status))
    /\ pod_list = << >>
    /\ printed # None /\ Elem(printed).ready_replicas = 0
    /\ Elem(printed).pods = Some(<< >>)

(***************************************************************************)
(* C13: in every run of create_deployment a manifest file is applied only  *)
(* after that same file was successfully written in that run, and a file   *)
(* whose write failed is never applied.                                    *)
(***************************************************************************)
\* the stages that apply a file, with the stage that writes it and its kind
ApplyStages == {2, 4, 6}
KindOfStage(n) ==
    CASE n \in {1, 2} -> "deployment" [] n \in {3, 4} -> "service" [] OTHER -> "scaledobject"

C13_WrittenBeforeApplied ==
    op = "create_deployment" =>
       /\ \A j \in DOMAIN trace :
             Stage(trace[j]) \in ApplyStages
                => /\ \E i \in DOMAIN trace :
                         /\ i < j
                         /\ Stage(trace[i]) = Stage(trace[j]) - 1
                         /\ ~Failed(trace[i])
                   /\ files[KindOfStage(Stage(trace[j]))] # None
       /\ \A i, j \in DOMAIN trace :
             (Stage(trace[i]) \in {1, 3, 5} /\ Failed(trace[i]))
                => Stage(trace[j]) # Stage(trace[i]) + 1
       /\ \A n \in {1, 3, 5} : files[KindOfStage(n)] # None <=> StageOk(n)

\* the service file could not be written: it is not applied
C13_Witness ==
    /\ op = "create_deployment" /\ pc = "returned" /\ ~ret
    /\ StageOk(1) /\ StageOk(2)
    /\ HasStage(3) /\ ~StageOk(3) /\ ~HasStage(4)
    /\ files.deployment # None /\ files.service = None

(***************************************************************************)
(* C14: create_deployment has no rollback.  No step of it, the failing one *)
(* included, removes or rewrites a manifest file already written or takes  *)
(* an event back; all it ever invokes are the writes and the `kubectl      *)
(* apply` commands of its manifests, so no delete or revert command; and   *)
(* the step that fails leaves every file as it was.                        *)
(***************************************************************************)
ManifestKinds == {"deployment", "service", "scaledobject"}

NoRollbackStep ==
    (op = "create_deployment" /\ nops' = nops) =>
       /\ \A k \in ManifestKinds : files[k] # None => files'[k] = files[k]
       /\ Len(trace') >= Len(trace)
       /\ SubSeq(trace', 1, Len(trace)) = trace
       /\ \A i \in (Len(trace) + 1)..Len(trace') : Stage(trace'[i]) > 0
       /\ (pc # "returned" /\ pc' = "returned" /\ ~ret') => files' = files

C14_NoRollback == [][NoRollbackStep]_vars

\* the policy apply failed: the three files and the two earlier applies stand
C14_Witness ==
    /\ op = "create_deployment" /\ pc = "returned" /\ ~ret
    /\ files.deployment # None /\ files.service # None /\ files.scaledobject # None
    /\ StageOk(2) /\ StageOk(4) /\ HasStage(6) /\ ~StageOk(6)
    /\ Len(trace) = 6

(***************************************************************************)
(* C15 as stated: no operation changes any field of the adapter            *)
(* (kubeconfig, namespace, helm_installed, keda_installed, helm_path).     *)
(***************************************************************************)
Fields == <<kubeconfig, namespace, helm_installed, keda_installed, helm_path>>

C15_Original == [][UNCHANGED Fields]_vars

(***************************************************************************)
(* C15 amended: kubeconfig and namespace are set at construction and no    *)
(* operation changes them; helm_installed and helm_path are changed by     *)
(* install_helm only, keda_installed by install_keda only, and             *)
(* connect_to_cluster, verify_keda_installation, create_deployment and     *)
(* get_deployment_status change no field.  Later operations read the two   *)
(* flags: install_keda invokes its commands only when helm_installed is    *)
(* set, and create_deployment writes the autoscaling document only when    *)
(* keda_installed is set.                                                  *)
(***************************************************************************)
ReadOnlyOps ==
    {"connect_to_cluster", "verify_keda_installation", "create_deployment",
     "get_deployment_status"}

FieldsStep ==
    /\ kubeconfig' = kubeconfig /\ namespace' = namespace
    /\ (helm_installed' # helm_installed \/ helm_path' # helm_path)
          => op = "install_helm" /\ op' = op
    /\ keda_installed' # keda_installed => op = "install_keda" /\ op' = op
    /\ op \in ReadOnlyOps => UNCHANGED Fields
    /\ (op = "install_keda" /\ \E i \in OpEvents : IsKedaCmd(trace[i])) => helm_installed
    /\ files.scaledobject # None => keda_installed

C15_FieldsFrame == [][FieldsStep]_vars

\* the third operation on one object wrote the autoscaling document: the two
\* before it were install_helm and install_keda, which set the flags it reads
C15_Witness ==
    /\ command = "session" /\ nops = 3 /\ op = "create_deployment"
    /\ helm_installed /\ keda_installed
    /\ files.scaledobject # None

(***************************************************************************)
(* C16 as stated: two deploy runs given identical input (name, image, tag, *)
(* replicas, resources, ports, policy, namespace) produce identical sets   *)
(* of documents with identical contents, whatever else differs.  A deploy  *)
(* run in which nothing fails writes manifests(call, namespace, FALSE),    *)
(* and such a run exists for every input; so the statement says that every *)
(* finished deploy run has written exactly these documents.                *)
(***************************************************************************)
\* the documents of a create_deployment in which every write and apply succeeds
manifests(c, ns, keda) ==
    [deployment |-> Some(deployment_doc(c, ns)),
     service |-> IF c.ports # << >> THEN Some(service_doc(c, ns)) ELSE None,
     scaledobject |-> IF Truthy(c.keda_config) /\ keda THEN Some(scaled_object_doc(c, ns))
                                                        ELSE None]

DeployRun == command = "deploy" /\ op = "create_deployment"

C16_Original == (DeployRun /\ Ended) => files = manifests(call, namespace, FALSE)

(***************************************************************************)
(* C16 amended: every document a create_deployment writes is a function of *)
(* the input alone (name, image, tag, replicas, resources, ports, policy,  *)
(* namespace), so two runs given identical input write identical contents  *)
(* for each document both write, and two deploy runs that both succeed     *)
(* write identical sets of documents.  Which documents a run writes also   *)
(* depends on what the writes and applies answered: a run that fails has   *)
(* written only the documents up to the failing step.  On an object driven *)
(* directly the autoscaling document also depends on keda_installed.       *)
(***************************************************************************)
C16_Deterministic ==
    op = "create_deployment" =>
       /\ \A k \in ManifestKinds :
             files[k] # None => files[k] = manifests(call, namespace, keda_installed)[k]
       /\ (Ended /\ ret) => files = manifests(call, namespace, keda_installed)
       /\ (DeployRun /\ Ended /\ ret) => files = manifests(call, namespace, FALSE)
       /\ \A n \in {1, 3, 5} :
             (HasStage(n) /\ ~StageOk(n)) \/ (HasStage(n + 1) /\ ~StageOk(n + 1))
                => \A k \in ManifestKinds :
                      files[k] # None => \E m \in 1..n : KindOfStage(m) = k

\* a deploy run with ports whose first apply failed: the workload document is
\* the only one written, though a kubeconfig is set and the namespace is not
\* the default one
C16_Witness ==
    /\ DeployRun /\ pc = "exited" /\ exit_code = 1
    /\ kubeconfig # None /\ namespace # "default"
    /\ call.ports # << >>
    /\ files.deployment = Some(deployment_doc(call, namespace))
    /\ files.service = None
    /\ HasStage(2) /\ ~StageOk(2)

(***************************************************************************)
(* C17: in a process started with `deploy`, keda_installed is false from   *)
(* construction to exit, so no <name>-scaledobject.yaml is written and no  *)
(* autoscaling apply is invoked, whatever --keda-config file is supplied.  *)
(* install_keda is never entered, and neither is any other operation than  *)
(* create_deployment.                                                      *)
(***************************************************************************)
C17_DeployNeverAutoscales ==
    command = "deploy" =>
       /\ ~keda_installed /\ ~helm_installed
       /\ op \in {"none", "create_deployment"}
       /\ files.scaledobject = None
       /\ ~HasStage(5) /\ ~HasStage(6)
       /\ \A i \in DOMAIN trace : ~IsKedaCmd(trace[i])

\* deploy --keda-config <file with a policy> succeeded without the document
C17_Witness ==
    /\ command = "deploy" /\ pc = "exited" /\ exit_code = 0
    /\ args.keda_config.given /\ args.keda_config.loads
    /\ Truthy(call.keda_config) /\ call.keda_config.triggers # None
    /\ files.deployment # None /\ files.scaledobject = None

(***************************************************************************)
(* C18: after any sequence of operations on one object, keda_installed     *)
(* implies helm_installed; helm_installed becomes true only in a step that *)
(* invokes `helm version` and sees it exit 0; keda_installed becomes true  *)
(* only in the step that ends the sequence repo add, repo update, chart    *)
(* install, pod listing, each exited 0 and in that order, with             *)
(* "keda-operator" in the listing's output; and neither flag goes back     *)
(* from true to false.                                                     *)
(***************************************************************************)
KedaCmds ==
    << helm_path \o " repo add kedacore https://kedacore.github.io/charts",
       helm_path \o " repo update",
       helm_path \o " install keda kedacore/keda --namespace keda --create-namespace"
          \o KubeconfigFlagQuoted,
       "kubectl get pods -n keda" \o KubeconfigFlagQuoted >>

\* the last four events of a trace
Tail4(tr) == SubSeq(tr, Len(tr) - 3, Len(tr))

FlagsStep ==
    /\ helm_installed => helm_installed'
    /\ keda_installed => keda_installed'
    /\ (~helm_installed /\ helm_installed')
          => /\ op = "install_helm"
             /\ Len(trace') = Len(trace) + 1
             /\ IsRun(trace'[Len(trace')], HelmVersionCmd)
             /\ ~Failed(trace'[Len(trace')])
    /\ (~keda_installed /\ keda_installed')
          => /\ op = "install_keda" /\ helm_installed
             /\ Len(trace') = Len(trace) + 1 /\ Len(trace') >= 4
             /\ \A i \in 1..4 :
                   IsRun(Tail4(trace')[i], KedaCmds[i]) /\ ~Failed(Tail4(trace')[i])
             /\ listed' # None /\ "keda-operator" \in Elem(listed')
    /\ keda_installed' => helm_installed'

C18_Flags == [][FlagsStep]_vars

\* both flags set by the first two operations and still set after a third,
\* which failed
C18_Witness ==
    /\ command = "session" /\ nops = 3 /\ pc = "returned" /\ ~ret
    /\ op \in {"install_helm", "install_keda"}
    /\ helm_installed /\ keda_installed

====
